---- MODULE Spec2Model ----
(***************************************************************************)
(* Model of src/src/child_weight.cpp: the children's dynamic weight model  *)
(* (class Child) and its fixed-step Runge-Kutta-4 driver.                  *)
(*                                                                         *)
(* Numbers.  The program computes in double; the model computes in fixed   *)
(* point.  A real x is the integer floor(x * S) with S = 10^4, products    *)
(* and quotients are rounded toward minus infinity (Mul, Div).  Ages are   *)
(* kept exactly, as integer ticks of a quarter day (TicksPerYear ticks make   *)
(* one year), so that the age grid age0 + s*dt/365 and the half steps      *)
(* 0.5*dt/365 of the integrator are exact.  dt and days are in ticks too.  *)
(* The one place where the rounding of double arithmetic decides a result  *)
(* is the floor that gives the row of the intake table: there the model    *)
(* carries the direction in which the double age falls off the grid        *)
(* (GridLow, timeval).                                                     *)
(***************************************************************************)
EXTENDS Integers, Sequences, FiniteSets, TLC

S == 10 ^ 4                 \* fixed-point scale of reals
TicksPerDay == 2 + 2        \* an age tick is a quarter of a day
DaysPerYear == 365
TicksPerYear == DaysPerYear * TicksPerDay

(***************************************************************************)
(* Fixed-point arithmetic that stays inside TLC's 32-bit integers.         *)
(***************************************************************************)
\* floor(a*b/S), by splitting both factors at S
Mul(a, b) ==
  LET qa == a \div S
      ra == a % S
      qb == b \div S
      rb == b % S
  IN  qa * qb * S + qa * rb + ra * qb + (ra * rb) \div S

\* floor(a*S/b) for b > 0, by long division, two decimal digits at a time
Div(a, b) ==
  LET q0 == a \div b
      r0 == a % b
      q1 == (r0 * 100) \div b
      r1 == (r0 * 100) % b
      q2 == (r1 * 100) \div b
  IN  q0 * S + q1 * 100 + q2

RECURSIVE PowS(_, _)
\* pow(x, n) for a whole exponent n >= 0
PowS(x, n) == IF n = 0 THEN S ELSE Mul(x, PowS(x, n - 1))

RECURSIVE ExpSeries(_, _, _)
\* sum of the Taylor terms of exp(f) from term number k on, 0 <= f < 1
ExpSeries(f, term, k) ==
  IF term = 0 THEN 0 ELSE term + ExpSeries(f, Mul(term, f) \div k, k + 1)

\* e, as exp(1)
Euler == ExpSeries(S, S, 1)

\* exp(f) for every fraction f, evaluated once
ExpFrac == [f \in 0..(S - 1) |-> ExpSeries(f, S, 1)]

\* exp(y): e^floor(y) * e^frac(y); below e^-12 the result is under one unit
Exp(y) ==
  LET n == y \div S
      f == y % S
  IN  IF n < -12 THEN 0
      ELSE IF n >= 0 THEN Mul(PowS(Euler, n), ExpFrac[f])
      ELSE Div(ExpFrac[f], PowS(Euler, -n))

\* the age t (ticks) in years, as a fixed-point real
Years(t) == (t * S) \div TicksPerYear

(***************************************************************************)
(* The object: the fields the two constructors set (lines 76-112).         *)
(***************************************************************************)
VARIABLES
  age,                   \* NumericVector age: starting ages, in ticks
  sex,                   \* NumericVector sex: 0 = male, 1 = female
  bmiCat,                \* NumericVector bmiCat: 1 under, 2 normal, 3 over, 4 obese
  FFM,                   \* NumericVector FFM: starting fat free mass (kg)
  FM,                    \* NumericVector FM: starting fat mass (kg)
  dt,                    \* double dt: the time step, in ticks
  EIntake,               \* NumericMatrix EIntake: one row per step, one column
                         \* per individual; <<>> when no table was given
  logistic,              \* K_logistic, Q_logistic, A_logistic, B_logistic,
                         \* nu_logistic, C_logistic; <<>> when never assigned
  generalized_logistic,  \* bool generalized_logistic: the intake mode
  referenceValues        \* double referenceValues: 0 = mean, 1 = median

(***************************************************************************)
(* The call in progress: the locals of rk4 (lines 333-391) and the result  *)
(* of a direct call of one of the other member functions.                  *)
(***************************************************************************)
VARIABLES
  pc,            \* "idle", "loop" (inside rk4's for loop), "done", "error"
  days,          \* rk4's argument, in ticks
  nsims,         \* int nsims
  i,             \* the loop counter of rk4
  ModelFFM,      \* NumericMatrix ModelFFM(nind, nsims + 1), column s at [s + 1]
  ModelFM,       \* NumericMatrix ModelFM(nind, nsims + 1)
  ModelBW,       \* NumericMatrix ModelBW(nind, nsims + 1)
  AGE,           \* NumericMatrix AGE(nind, nsims + 1), in ticks
  TIME,          \* NumericVector TIME(nsims + 1), in ticks
  correctVals,   \* bool correctVals
  k1, k2, k3, k4,\* NumericMatrix k1, k2, k3, k4: the stage derivatives
  reads,         \* the intake-table rows Intake has read in this call of rk4
  ret            \* the last direct call: its name, arguments and result

child == <<age, sex, bmiCat, FFM, FM, dt, EIntake, logistic,
           generalized_logistic, referenceValues>>
locals == <<pc, days, nsims, i, ModelFFM, ModelFM, ModelBW, AGE, TIME,
            correctVals, k1, k2, k3, k4, reads>>
vars == <<child, locals, ret>>

(***************************************************************************)
(* getParameters (lines 406-451).  The sex specific constants are vectors  *)
(* over the individuals; the parameters no function reads (ffm_beta0..,    *)
(* A1..tauD1 of Growth_impact) are left out.                               *)
(***************************************************************************)
rhoFM == 9400          \* 9.4*1000.0 kcal/kg
deltamin == 10
P == 12
h == 10

nind == Len(age)

\* male*(1 - sex) + female*sex, elementwise
SexBlend(male, female) ==
  [j \in 1..nind |-> male * (1 - sex[j]) + female * sex[j]]

K         == SexBlend(8000000, 7000000)   \* 800, 700
deltamax  == SexBlend(190000, 170000)   \* 19, 17
A         == SexBlend(32000, 23000)   \* 3.2, 2.3
B         == SexBlend(96000, 84000)   \* 9.6, 8.4
D         == SexBlend(101000, 11000)   \* 10.1, 1.1
tA        == SexBlend(47000, 45000)   \* 4.7, 4.5
tB        == SexBlend(125000, 117000)   \* 12.5, 11.7
tD        == SexBlend(150000, 162000)   \* 15.0, 16.2
tauA      == SexBlend(25000, 10000)   \* 2.5, 1.0
tauB      == SexBlend(10000, 9000)   \* 1.0, 0.9
tauD      == SexBlend(15000, 7000)   \* 1.5, 0.7
A_EB      == SexBlend(72000, 165000)   \* 7.2, 16.5
B_EB      == SexBlend(300000, 470000)   \* 30, 47.0
D_EB      == SexBlend(210000, 410000)   \* 21, 41.0
tA_EB     == SexBlend(56000, 48000)   \* 5.6, 4.8
tB_EB     == SexBlend(98000, 91000)   \* 9.8, 9.1
tD_EB     == SexBlend(150000, 135000)   \* 15.0, 13.5
tauA_EB   == SexBlend(150000, 70000)   \* 15, 7.0
tauB_EB   == SexBlend(15000, 10000)   \* 1.5, 1.0
tauD_EB   == SexBlend(20000, 15000)   \* 2.0, 1.5

(***************************************************************************)
(* general_ode and the two curves built on it (lines 123-144).             *)
(* t is a vector of ages in ticks.                                         *)
(***************************************************************************)
\* exp(-0.5*pow((t - tX)/tauX, 2))
Gauss(t, tX, tauX) ==
  LET x == Div(t - tX, tauX) IN Exp((-Mul(x, x)) \div 2)

general_ode(t, input_A, input_B, input_D, input_tA, input_tB, input_tD, input_tauA, input_tauB, input_tauD) ==
  [j \in 1..nind |->
     Mul(input_A[j], Exp(-Div(Years(t[j]) - input_tA[j], input_tauA[j])))
     + Mul(input_B[j], Gauss(Years(t[j]), input_tB[j], input_tauB[j]))
     + Mul(input_D[j], Gauss(Years(t[j]), input_tD[j], input_tauD[j]))]

Growth_dynamic(t) == general_ode(t, A, B, D, tA, tB, tD, tauA, tauB, tauD)

EB_impact(t) ==
  general_ode(t, A_EB, B_EB, D_EB, tA_EB, tB_EB, tD_EB, tauA_EB, tauB_EB, tauD_EB)

(***************************************************************************)
(* Physiology functions (lines 146-158).                                   *)
(***************************************************************************)
\* 4.3*input_FFM + 837.0
cRhoFFM(input_FFM) == [j \in 1..nind |-> Mul(43000, input_FFM[j]) + 837 * S]

\* the partition taken as the fat share FM/(C + FM)
cP_fatShare(FFM_, FM_) ==
  LET rhoFFM == cRhoFFM(FFM_)
      C == [j \in 1..nind |-> Mul(104000, rhoFFM[j]) \div rhoFM]
  IN  [j \in 1..nind |-> Div(FM_[j], C[j] + FM_[j])]

cP(FFM_, FM_) ==
  LET rhoFFM == cRhoFFM(FFM_)
      C == [j \in 1..nind |-> Mul(104000, rhoFFM[j]) \div rhoFM]
  IN  [j \in 1..nind |-> Div(C[j], C[j] + FM_[j])]

\* deltamin + (deltamax - deltamin)*(1.0/(1.0 + pow(t/P, h)))
Delta(t) ==
  [j \in 1..nind |->
     deltamin * S
     + Mul(deltamax[j] - deltamin * S,
           Div(S, S + PowS(Years(t[j]) \div P, h)))]

(***************************************************************************)
(* The reference tables (lines 167-210 and 238-282), in units of 1/S kg.   *)
(* Row r + 1 here is row r of the matrix, age r + 2; a row is either one <<male, female>> pair or     *)
(* four of them, for under, normal, over and obese.                        *)
(***************************************************************************)
ffm_ref_mean ==
  <<
   << <<101340, 94770>> >>,
   << <<120990, 114940>> >>,
   << <<140000, 132000>> >>,
   << <<157200, 148600>> >>,
   << <<127942, 137957>>, <<170238, 152337>>, <<193070, 177866>>, <<222248, 212170>> >>,
   << <<178106, 184835>>, <<190775, 175198>>, <<203344, 189406>>, <<231765, 222733>> >>,
   << <<203597, 185363>>, <<204774, 196317>>, <<221128, 216080>>, <<258151, 251641>> >>,
   << <<193668, 170314>>, <<223768, 213680>>, <<267714, 261791>>, <<313143, 301484>> >>,
   << <<203271, 237546>>, <<262985, 264307>>, <<296861, 325531>>, <<366630, 341787>> >>,
   << <<255568, 212704>>, <<274862, 288484>>, <<328810, 349192>>, <<391109, 390934>> >>,
   << <<279345, 277570>>, <<315756, 333547>>, <<369403, 391253>>, <<440610, 439033>> >>,
   << <<301592, 269376>>, <<357001, 362985>>, <<435796, 413549>>, <<483233, 470629>> >>,
   << <<212736, 292222>>, <<404352, 371184>>, <<470679, 448448>>, <<567861, 476488>> >>,
   << <<361157, 341242>>, <<432381, 400629>>, <<507450, 459011>>, <<583804, 501206>> >>,
   << <<405041, 381473>>, <<448314, 400155>>, <<545065, 448730>>, <<606145, 513464>> >>,
   << <<405722, 365821>>, <<487226, 416682>>, <<573895, 484993>>, <<603961, 534969>> >>,
   << <<427400, 312639>>, <<497806, 418400>>, <<582319, 479007>>, <<618395, 513603>> >>
  >>

\* a median table whose 12 year row repeats the 8 year row
ffm_ref_median_row12 ==
  [r \in 1..17 |-> IF r = 11 THEN ffm_ref_mean[7] ELSE ffm_ref_mean[r]]

ffm_ref_median ==
  <<
   << <<101340, 94770>> >>,
   << <<120990, 114940>> >>,
   << <<140000, 132000>> >>,
   << <<157200, 148600>> >>,
   << <<144641, 138627>>, <<171430, 151282>>, <<192280, 176859>>, <<219501, 204992>> >>,
   << <<163729, 166347>>, <<182285, 172507>>, <<217099, 200341>>, <<249713, 234162>> >>,
   << <<180019, 172583>>, <<199148, 194286>>, <<246404, 221758>>, <<274774, 268346>> >>,
   << <<192548, 175150>>, <<219058, 212721>>, <<265243, 256952>>, <<308636, 292900>> >>,
   << <<203271, 237546>>, <<262985, 264307>>, <<296861, 325531>>, <<366630, 341787>> >>,
   << <<255568, 212704>>, <<274862, 288484>>, <<328810, 349192>>, <<391109, 390934>> >>,
   << <<279345, 277570>>, <<315756, 333547>>, <<369403, 391253>>, <<440610, 439033>> >>,
   << <<301592, 269376>>, <<357001, 362985>>, <<435796, 413549>>, <<483233, 470629>> >>,
   << <<212736, 292222>>, <<404352, 371184>>, <<470679, 448448>>, <<567861, 476488>> >>,
   << <<361157, 341242>>, <<432381, 400629>>, <<507450, 459011>>, <<583804, 501206>> >>,
   << <<418846, 381473>>, <<448314, 400155>>, <<545065, 448730>>, <<606145, 513464>> >>,
   << <<405722, 365821>>, <<487226, 416682>>, <<573895, 484993>>, <<603961, 534969>> >>,
   << <<427400, 312639>>, <<497806, 418400>>, <<582319, 479007>>, <<618395, 513603>> >>
  >>

fm_ref_mean ==
  <<
   << <<24560, 24330>> >>,
   << <<25760, 26060>> >>,
   << <<27000, 28000>> >>,
   << <<36600, 44700>> >>,
   << <<17764, 25951>>, <<34540, 38303>>, <<48055, 57014>>, <<79672, 93883>> >>,
   << <<23398, 28164>>, <<35859, 42782>>, <<54625, 65960>>, <<84350, 104148>> >>,
   << <<32767, 30828>>, <<41138, 52226>>, <<55455, 73667>>, <<93266, 120550>> >>,
   << <<23902, 26538>>, <<41705, 50218>>, <<66958, 86945>>, <<115896, 141436>> >>,
   << <<24479, 32454>>, <<49982, 54190>>, <<79746, 91949>>, <<163177, 139706>> >>,
   << <<33203, 26392>>, <<54113, 60374>>, <<89515, 109333>>, <<169403, 186393>> >>,
   << <<34905, 37443>>, <<63199, 71416>>, <<107410, 126422>>, <<207120, 233028>> >>,
   << <<37085, 32124>>, <<70187, 84339>>, <<136491, 142744>>, <<237980, 245466>> >>,
   << <<19970, 39076>>, <<81211, 87344>>, <<152322, 162757>>, <<304881, 286411>> >>,
   << <<42798, 38050>>, <<85973, 98169>>, <<168229, 179753>>, <<320464, 290900>> >>,
   << <<46019, 45292>>, <<91734, 98278>>, <<193477, 161585>>, <<321754, 308017>> >>,
   << <<42804, 43746>>, <<100719, 98915>>, <<202305, 184581>>, <<307093, 352589>> >>,
   << <<49325, 33333>>, <<111103, 93370>>, <<210289, 184491>>, <<365275, 302936>> >>
  >>

fm_ref_median ==
  <<
   << <<24560, 24330>> >>,
   << <<25760, 26060>> >>,
   << <<27000, 28000>> >>,
   << <<36600, 44700>> >>,
   << <<20359, 25660>>, <<34642, 37042>>, <<46220, 56735>>, <<71058, 87339>> >>,
   << <<23771, 29560>>, <<36030, 41865>>, <<55651, 64374>>, <<80501, 93100>> >>,
   << <<21231, 30917>>, <<36729, 48531>>, <<58971, 70172>>, <<89372, 115469>> >>,
   << <<24068, 29027>>, <<40597, 48707>>, <<65720, 87112>>, <<108084, 127559>> >>,
   << <<24479, 32454>>, <<49982, 54190>>, <<79746, 91949>>, <<163177, 139706>> >>,
   << <<33203, 26392>>, <<54113, 60374>>, <<89515, 109333>>, <<169403, 186393>> >>,
   << <<34905, 37443>>, <<63199, 71416>>, <<107410, 126422>>, <<207120, 233028>> >>,
   << <<37085, 32124>>, <<70187, 84339>>, <<136491, 142744>>, <<237980, 245466>> >>,
   << <<19970, 39076>>, <<81211, 87344>>, <<152322, 162757>>, <<304881, 286411>> >>,
   << <<42798, 38050>>, <<85973, 98169>>, <<168229, 179753>>, <<320464, 290900>> >>,
   << <<46585, 45292>>, <<91734, 98278>>, <<193477, 161585>>, <<321754, 308017>> >>,
   << <<42804, 43746>>, <<100719, 98915>>, <<202305, 184581>>, <<307093, 352589>> >>,
   << <<49325, 33333>>, <<111103, 93370>>, <<210289, 184491>>, <<365275, 302936>> >>
  >>


\* the row with every category that is not under, normal or over counted
\* as obese
RefRow_restObese(row, j) ==
  LET under == IF bmiCat[j] = 1 THEN 1 ELSE 0
      normales == IF bmiCat[j] = 2 THEN 1 ELSE 0
      over == IF bmiCat[j] = 3 THEN 1 ELSE 0
      obese == IF bmiCat[j] \notin {1, 2, 3} THEN 1 ELSE 0
      blend(pair) == pair[1] * (1 - sex[j]) + pair[2] * sex[j]
  IN  IF Len(row) = 1 THEN blend(row[1])
      ELSE under * blend(row[1]) + normales * blend(row[2])
           + over * blend(row[3]) + obese * blend(row[4])

\* one row of ffm_ref / fm_ref for individual j: the indicators under,
\* normales, over and obese select the pair, sex blends it
RefRow(row, j) ==
  LET under == IF bmiCat[j] = 1 THEN 1 ELSE 0
      normales == IF bmiCat[j] = 2 THEN 1 ELSE 0
      over == IF bmiCat[j] = 3 THEN 1 ELSE 0
      obese == IF bmiCat[j] = 4 THEN 1 ELSE 0
      blend(pair) == pair[1] * (1 - sex[j]) + pair[2] * sex[j]
  IN  IF Len(row) = 1 THEN blend(row[1])
      ELSE under * blend(row[1]) + normales * blend(row[2])
           + over * blend(row[3]) + obese * blend(row[4])

\* NumericMatrix ffm_ref(17, nind), filled for the reference set rv: it
\* stays zero unless rv is 0 or 1
ffm_ref(rv, r, j) ==
  IF rv = 0 THEN RefRow(ffm_ref_mean[r + 1], j)
  ELSE IF rv = 1 THEN RefRow(ffm_ref_median[r + 1], j)
  ELSE 0

fm_ref(rv, r, j) ==
  IF rv = 0 THEN RefRow(fm_ref_mean[r + 1], j)
  ELSE IF rv = 1 THEN RefRow(fm_ref_median[r + 1], j)
  ELSE 0

Max(a, b) == IF a >= b THEN a ELSE b
Min(a, b) == IF a <= b THEN a ELSE b

(***************************************************************************)
(* The interpolation loops (lines 212-229 and 287-304).  The result is     *)
(* kept exactly: it is in units of 1/(S*TicksPerYear) kg.  The functions   *)
(* read the member referenceValues; the ...For operators take it as rv so  *)
(* that two objects that differ in it alone can be compared.               *)
(***************************************************************************)
\* jmin = max(floor(t), 2) - 2, jmax = min(jmin + 1, 17), diff = t - floor(t)
jminOf(t) == Max(t \div TicksPerYear, 2) - 2
jmaxOf(t) == Min(jminOf(t) + 1, 17)
\* the interpolation weight taken from the upper year
diffOf_upper(t) == TicksPerYear - (t - (t \div TicksPerYear) * TicksPerYear)
diffOf(t) == t - (t \div TicksPerYear) * TicksPerYear

\* the lookup that returns the 17 year row from 18 years on
FFMReferenceFor_row15(rv, t) ==
  [j \in 1..nind |->
     IF t[j] >= 18 * TicksPerYear THEN TicksPerYear * ffm_ref(rv, 15, j)
     ELSE TicksPerYear * ffm_ref(rv, jminOf(t[j]), j)
          + diffOf(t[j])
            * (ffm_ref(rv, jmaxOf(t[j]), j) - ffm_ref(rv, jminOf(t[j]), j))]

FFMReferenceFor(rv, t) ==
  [j \in 1..nind |->
     IF t[j] >= 18 * TicksPerYear THEN TicksPerYear * ffm_ref(rv, 16, j)
     ELSE TicksPerYear * ffm_ref(rv, jminOf(t[j]), j)
          + diffOf(t[j])
            * (ffm_ref(rv, jmaxOf(t[j]), j) - ffm_ref(rv, jminOf(t[j]), j))]

FMReferenceFor(rv, t) ==
  [j \in 1..nind |->
     IF t[j] >= 18 * TicksPerYear THEN TicksPerYear * fm_ref(rv, 16, j)
     ELSE TicksPerYear * fm_ref(rv, jminOf(t[j]), j)
          + diffOf(t[j])
            * (fm_ref(rv, jmaxOf(t[j]), j) - fm_ref(rv, jminOf(t[j]), j))]

FFMReference(t) == FFMReferenceFor(referenceValues, t)
FMReference(t) == FMReferenceFor(referenceValues, t)

(***************************************************************************)
(* IntakeReference (lines 306-316).                                        *)
(***************************************************************************)
IntakeReferenceFor(rv, t) ==
  LET EB == EB_impact(t)
      FFMref == [j \in 1..nind |-> FFMReferenceFor(rv, t)[j] \div TicksPerYear]
      FMref == [j \in 1..nind |-> FMReferenceFor(rv, t)[j] \div TicksPerYear]
      delta == Delta(t)
      growth == Growth_dynamic(t)
      p == cP(FFMref, FMref)
      rhoFFM == cRhoFFM(FFMref)
  IN  [j \in 1..nind |->
         EB[j] + K[j]
         + Mul(224000 + delta[j], FFMref[j])
         + Mul(45000 + delta[j], FMref[j])
         + Mul(Div(230 * S, rhoFFM[j]), Mul(p[j], EB[j]) + growth[j])
         + Mul((180 * S) \div rhoFM, Mul(S - p[j], EB[j]) - growth[j])]

IntakeReference(t) == IntakeReferenceFor(referenceValues, t)

(***************************************************************************)
(* Intake (lines 455-463).  The row accessor EIntake(timeval, _) of the    *)
(* matrix class checks its index and throws index_out_of_bounds; a call    *)
(* that throws is the result with ok = FALSE.                              *)
(***************************************************************************)
\* floor(365.0*(t(0) - age(0))/dt).  In ticks the quotient is exact.  The
\* program computes it in double: for a t(0) that lies a whole number n # 0
\* of steps from age(0) the rounded quotient is n or just under n, and the
\* floor is n or n - 1; low says which.  Off the grid, and at t(0) = age(0),
\* the rounding does not reach the floor.
timeval(t, low) ==
  LET e == t[1] - age[1]
  IN  IF low /\ e # 0 /\ e % dt = 0 THEN e \div dt - 1 ELSE e \div dt

RowInBounds(r) == r >= 0 /\ r < Len(EIntake)

\* A + (K - A)/pow(C + Q*exp(-B*t), 1/nu), for 1/nu a whole number
LogisticIntake(t) ==
  [j \in 1..nind |->
     logistic.A
     + Div(logistic.K - logistic.A,
           PowS(logistic.C + Mul(logistic.Q, Exp(-Mul(logistic.B, Years(t[j])))),
                S \div logistic.nu))]

\* Intake with the row index clamped into the table instead of checked
Intake_clamped(t, low) ==
  IF generalized_logistic THEN [ok |-> TRUE, val |-> LogisticIntake(t)]
  ELSE [ok |-> TRUE,
        val |-> EIntake[Min(Max(timeval(t, low), 0), Len(EIntake) - 1) + 1]]

Intake(t, low) ==
  IF generalized_logistic THEN [ok |-> TRUE, val |-> LogisticIntake(t)]
  ELSE IF RowInBounds(timeval(t, low))
       THEN [ok |-> TRUE, val |-> EIntake[timeval(t, low) + 1]]
  ELSE [ok |-> FALSE, val |-> <<>>]

(***************************************************************************)
(* Expenditure (lines 318-330) and dMass (lines 393-404), for a call in    *)
(* which Intake(t) does not throw; low is the rounding of its row index.   *)
(***************************************************************************)
Expenditure(t, low, FFM_, FM_) ==
  LET delta == Delta(t)
      Iref == IntakeReference(t)
      Intakeval == Intake(t, low).val
      DeltaI == [j \in 1..nind |-> Intakeval[j] - Iref[j]]
      p == cP(FFM_, FM_)
      rhoFFM == cRhoFFM(FFM_)
      growth == Growth_dynamic(t)
      \* 230.0/rhoFFM*p + 180.0/rhoFM*(1.0 - p)
      w == [j \in 1..nind |->
              Mul(Div(230 * S, rhoFFM[j]), p[j])
              + Mul((180 * S) \div rhoFM, S - p[j])]
      Expend == [j \in 1..nind |->
              K[j] + Mul(224000 + delta[j], FFM_[j]) + Mul(45000 + delta[j], FM_[j])
              + Mul(2400, DeltaI[j]) + Mul(w[j], Intakeval[j])
              + Mul(growth[j], Div(230 * S, rhoFFM[j]) - (180 * S) \div rhoFM)]
  IN  [j \in 1..nind |-> Div(Expend[j], S + w[j])]

\* dMass with the growth term added to both rates
dMass_growthTwice(t, low, FFM_, FM_) ==
  LET rhoFFM == cRhoFFM(FFM_)
      p == cP(FFM_, FM_)
      growth == Growth_dynamic(t)
      expend == Expenditure(t, low, FFM_, FM_)
      intake == Intake(t, low).val
  IN  << [j \in 1..nind |->
            Div(Mul(p[j], intake[j] - expend[j]) + growth[j], rhoFFM[j])],
         [j \in 1..nind |->
            (Mul(S - p[j], intake[j] - expend[j]) + growth[j]) \div rhoFM] >>

\* the 2 x nind matrix Mass: row 1 is dFFM, row 2 is dFM (kg per day)
dMass(t, low, FFM_, FM_) ==
  LET rhoFFM == cRhoFFM(FFM_)
      p == cP(FFM_, FM_)
      growth == Growth_dynamic(t)
      expend == Expenditure(t, low, FFM_, FM_)
      intake == Intake(t, low).val
  IN  << [j \in 1..nind |->
            Div(Mul(p[j], intake[j] - expend[j]) + growth[j], rhoFFM[j])],
         [j \in 1..nind |->
            (Mul(S - p[j], intake[j] - expend[j]) - growth[j]) \div rhoFM] >>

(***************************************************************************)
(* rk4 (lines 333-391), one action per part: the set-up before the loop,   *)
(* one pass of the loop, and the return.                                   *)
(***************************************************************************)
Zeros(n) == [j \in 1..n |-> 0]
ZeroMatrix(n, cols) == [s \in 1..cols |-> Zeros(n)]

\* a column write that is one column off: pass i overwrites column i - 1
SetCol_prev(M, s, v) == [M EXCEPT ![IF s >= 1 THEN s ELSE 1] = v]

\* column s (0-based) of a matrix, and the matrix with column s replaced
Col(M, s) == M[s + 1]
SetCol(M, s, v) == [M EXCEPT ![s + 1] = v]

VAdd(u, v) == [j \in 1..nind |-> u[j] + v[j]]
\* 0.5*k and 1*k of the stage arguments
Half(k) == [j \in 1..nind |-> k[j] \div 2]
Shift(t, d) == [j \in 1..nind |-> t[j] + d]

\* the number of steps rounded up instead of down
NumSteps_ceil(input_days) == (input_days + dt - 1) \div dt

\* int nsims = floor(days/dt)
NumSteps(input_days) == input_days \div dt

\* body weight that leaves the fat mass out
BodyWeight_noFM(ffm, fm) == ffm

\* ModelBW(_, s) = ModelFFM(_, s) + ModelFM(_, s)
BodyWeight(ffm, fm) == VAdd(ffm, fm)

\* correctVals recomputed in every pass: false once a mass is not positive
CorrectValsAfter_checked(ffm, fm) ==
  correctVals /\ \A j \in 1..nind : ffm[j] > 0 /\ fm[j] > 0

\* correctVals after a pass that wrote the columns ffm and fm: the loop
\* never assigns it
CorrectValsAfter(ffm, fm) == correctVals

\* lines 339-356
Rk4Begin(input_days) ==
  /\ pc = "idle"
  /\ ret.fn = "none"
  /\ days' = input_days
  /\ nsims' = NumSteps(input_days)
  /\ ModelFFM' = SetCol(ZeroMatrix(nind, nsims' + 1), 0, FFM)
  /\ ModelFM' = SetCol(ZeroMatrix(nind, nsims' + 1), 0, FM)
  /\ ModelBW' = SetCol(ZeroMatrix(nind, nsims' + 1), 0, BodyWeight(FFM, FM))
  /\ TIME' = [s \in 1..(nsims' + 1) |-> 0]
  /\ AGE' = SetCol(ZeroMatrix(nind, nsims' + 1), 0, age)
  /\ correctVals' = TRUE
  /\ k1' = <<>> /\ k2' = <<>> /\ k3' = <<>> /\ k4' = <<>>
  /\ i' = 1
  /\ reads' = {}
  /\ pc' = "loop"
  /\ ret' = [fn |-> "none"]
  /\ UNCHANGED child

\* the ages at which the four stages of pass i evaluate dMass
StageAges ==
  << Col(AGE, i - 1), Shift(Col(AGE, i - 1), dt \div 2),
     Shift(Col(AGE, i - 1), dt \div 2), Shift(Col(AGE, i - 1), dt) >>

RECURSIVE Pow2Mod(_, _)
\* 2^n modulo q
Pow2Mod(n, q) == IF n = 0 THEN 1 % q ELSE (2 * Pow2Mod(n - 1, q)) % q

\* the binary exponent e of an age of a year or more: 2^e <= age < 2^(e+1)
Exponent(a) ==
  CHOOSE e \in 0..7 : 2 ^ e * TicksPerYear <= a /\ a < 2 ^ (e + 1) * TicksPerYear

\* AGE(_, s) = AGE(_, s - 1) + dt/365.0 in double (line 379, and the same
\* sum as the argument of stage four, line 364).  The doubles from age(0)
\* up to the next power of two are the multiples of u = 2^(e - 52), so
\* every addition rounds dt/365.0 to a multiple of u, the same one each
\* time, and AGE(0, s) - age(0) is exactly s times that multiple.  When it
\* lies under dt/365, that is when the remainder of (dt/365)/u is under
\* half, 365.0*(AGE(0, s) - age(0))/dt comes out just under s.  (The runs
\* of the model end before the age reaches the next power of two.)
GridLow ==
  LET r == (dt * Pow2Mod(52 - Exponent(age[1]), TicksPerYear)) % TicksPerYear
  IN  0 < r /\ 2 * r < TicksPerYear

\* the rounding of the row index at the four stages: the first reads the
\* double in AGE(0, i - 1), the half steps lie off the grid, and the fourth
\* evaluates AGE(0, i - 1) + dt/365.0
StageLow == <<GridLow, FALSE, FALSE, GridLow>>

\* a direct caller's t(0) is any double: at a grid point it may lie on
\* either side; no row is looked up in the logistic mode
Roundings == IF generalized_logistic THEN {FALSE} ELSE BOOLEAN

\* the stage at which pass i throws, 0 when none does
FailingStage ==
  IF \A n \in 1..4 : Intake(StageAges[n], StageLow[n]).ok THEN 0
  ELSE CHOOSE n \in 1..4 :
         /\ ~Intake(StageAges[n], StageLow[n]).ok
         /\ \A m \in 1..(n - 1) : Intake(StageAges[m], StageLow[m]).ok

\* stage n of pass i is evaluated and returns
Reached(n) == FailingStage = 0 \/ FailingStage > n

\* the rows of EIntake the stages up to stage n ask for
Asked(n) ==
  IF generalized_logistic THEN {}
  ELSE {timeval(StageAges[m], StageLow[m]) : m \in 1..n}

\* lines 357-380: one pass of the for loop
Rk4Step ==
  /\ pc = "loop"
  /\ i <= nsims
  /\ \E f \in {Col(ModelFFM, i - 1)}, m \in {Col(ModelFM, i - 1)} :
     \E n1 \in {IF Reached(1)
                THEN dMass(StageAges[1], StageLow[1], f, m)
                ELSE k1} :
     \E n2 \in {IF Reached(2)
                THEN dMass(StageAges[2], StageLow[2],
                           VAdd(f, Half(n1[1])), VAdd(m, Half(n1[2])))
                ELSE k2} :
     \E n3 \in {IF Reached(3)
                THEN dMass(StageAges[3], StageLow[3],
                           VAdd(f, Half(n2[1])), VAdd(m, Half(n2[2])))
                ELSE k3} :
     \E n4 \in {IF Reached(4)
                THEN dMass(StageAges[4], StageLow[4],
                           VAdd(f, n3[1]), VAdd(m, n3[2]))
                ELSE k4} :
       /\ k1' = n1 /\ k2' = n2 /\ k3' = n3 /\ k4' = n4
       /\ IF FailingStage # 0
          THEN /\ pc' = "error"
               /\ reads' = reads \cup Asked(FailingStage)
               /\ UNCHANGED <<i, ModelFFM, ModelFM, ModelBW, AGE, TIME,
                              correctVals>>
          ELSE \* dt*(k1 + 2.0*k2 + 2.0*k3 + k4)/6.0, dt in days
               LET step(r) == [j \in 1..nind |->
                                 (dt * (n1[r][j] + 2 * n2[r][j] + 2 * n3[r][j] + n4[r][j]))
                                   \div (6 * TicksPerDay)]
                   newFFM == VAdd(f, step(1))
                   newFM == VAdd(m, step(2))
               IN  /\ ModelFFM' = SetCol(ModelFFM, i, newFFM)
                   /\ ModelFM' = SetCol(ModelFM, i, newFM)
                   /\ ModelBW' = SetCol(ModelBW, i, BodyWeight(Col(ModelFFM', i), Col(ModelFM', i)))
                   /\ correctVals' = CorrectValsAfter(newFFM, newFM)
                   /\ TIME' = [TIME EXCEPT ![i + 1] = TIME[i] + dt]
                   /\ AGE' = SetCol(AGE, i, Shift(Col(AGE, i - 1), dt))
                   /\ i' = i + 1
                   /\ reads' = reads \cup Asked(4)
                   /\ pc' = "loop"
  /\ UNCHANGED <<child, days, nsims, ret>>

\* lines 382-388: the loop is over, the bundle is returned
Rk4Return ==
  /\ pc = "loop"
  /\ i > nsims
  /\ pc' = "done"
  /\ UNCHANGED <<child, days, nsims, i, ModelFFM, ModelFM, ModelBW, AGE, TIME,
                 correctVals, k1, k2, k3, k4, reads, ret>>


\* the call is over: its locals are gone and the object is as it was
Return ==
  /\ pc \in {"done", "error"}
  /\ pc' = "idle"
  /\ days' = 0 /\ nsims' = 0 /\ i' = 0
  /\ ModelFFM' = <<>> /\ ModelFM' = <<>> /\ ModelBW' = <<>>
  /\ AGE' = <<>> /\ TIME' = <<>>
  /\ correctVals' = FALSE
  /\ k1' = <<>> /\ k2' = <<>> /\ k3' = <<>> /\ k4' = <<>>
  /\ reads' = {}
  /\ UNCHANGED <<child, ret>>

(***************************************************************************)
(* Direct calls of the member functions, all individuals at the same       *)
(* argument.  ret holds the result until the caller drops it, one call at  *)
(* a time.                                                                 *)
(***************************************************************************)
Same(x) == [j \in 1..nind |-> x]

CallFFMReference(t) ==
  /\ pc = "idle"
  /\ ret.fn = "none"
  /\ ret' = [fn |-> "FFMReference", t |-> t, val |-> FFMReference(Same(t))]
  /\ UNCHANGED <<child, locals>>

CallFMReference(t) ==
  /\ pc = "idle"
  /\ ret.fn = "none"
  /\ ret' = [fn |-> "FMReference", t |-> t, val |-> FMReference(Same(t))]
  /\ UNCHANGED <<child, locals>>

CallIntakeReference(t) ==
  /\ pc = "idle"
  /\ ret.fn = "none"
  /\ ret' = [fn |-> "IntakeReference", t |-> t, val |-> IntakeReference(Same(t))]
  /\ UNCHANGED <<child, locals>>

CallcP(ffm, fm) ==
  /\ pc = "idle"
  /\ ret.fn = "none"
  /\ ret' = [fn |-> "cP", FFM |-> ffm, FM |-> fm, val |-> cP(Same(ffm), Same(fm))]
  /\ UNCHANGED <<child, locals>>

CallIntake(t) ==
  /\ pc = "idle"
  /\ ret.fn = "none"
  /\ \E low \in Roundings :
       ret' = [fn |-> "Intake", t |-> t, row |-> timeval(Same(t), low),
               ok |-> Intake(Same(t), low).ok, val |-> Intake(Same(t), low).val]
  /\ UNCHANGED <<child, locals>>

\* dMass for a cohort d ticks after its starting ages, every individual in
\* the state (ffm, fm)
CalldMass(d, ffm, fm) ==
  /\ pc = "idle"
  /\ ret.fn = "none"
  /\ Intake(Shift(age, d), FALSE).ok
  /\ ret' = [fn |-> "dMass", t |-> Shift(age, d), FFM |-> Same(ffm), FM |-> Same(fm),
             val |-> dMass(Shift(age, d), FALSE, Same(ffm), Same(fm))]
  /\ UNCHANGED <<child, locals>>

\* the caller drops the result of a direct call
Discard ==
  /\ pc = "idle"
  /\ ret.fn # "none"
  /\ ret' = [fn |-> "none"]
  /\ UNCHANGED <<child, locals>>

(***************************************************************************)
(* The two constructors (lines 76-112) and the inputs of the model.        *)
(***************************************************************************)
\* the table constructor with the mode flag of the other constructor
ChildEIntake_logisticFlag(input_age, input_sex, input_bmiCat, input_FFM, input_FM, input_EIntake, input_dt, input_referenceValues) ==
  /\ age = input_age
  /\ sex = input_sex
  /\ bmiCat = input_bmiCat
  /\ FM = input_FM
  /\ FFM = input_FFM
  /\ dt = input_dt
  /\ EIntake = input_EIntake
  /\ logistic = <<>>
  /\ generalized_logistic = TRUE
  /\ referenceValues = input_referenceValues

\* Child(age, sex, bmiCat, FFM, FM, EIntake, dt, checkValues, referenceValues);
\* the flag check is stored and never read, and is left out
ChildEIntake(input_age, input_sex, input_bmiCat, input_FFM, input_FM, input_EIntake, input_dt, input_referenceValues) ==
  /\ age = input_age
  /\ sex = input_sex
  /\ bmiCat = input_bmiCat
  /\ FM = input_FM
  /\ FFM = input_FFM
  /\ dt = input_dt
  /\ EIntake = input_EIntake
  /\ logistic = <<>>
  /\ generalized_logistic = FALSE
  /\ referenceValues = input_referenceValues

\* Child(age, sex, bmiCat, FFM, FM, K, Q, A, B, nu, C, dt, checkValues,
\*       referenceValues)
ChildLogistic(input_age, input_sex, input_bmiCat, input_FFM, input_FM, input_logistic, input_dt, input_referenceValues) ==
  /\ age = input_age
  /\ sex = input_sex
  /\ bmiCat = input_bmiCat
  /\ FM = input_FM
  /\ FFM = input_FFM
  /\ dt = input_dt
  /\ EIntake = <<>>
  /\ logistic = input_logistic
  /\ referenceValues = input_referenceValues
  /\ generalized_logistic = TRUE

MaxDays == 3       \* rk4 is called with 0..MaxDays whole days
MaxRows == 3       \* an intake table has 1..MaxRows rows
MaxAge == 19       \* direct calls take ages of 1..MaxAge years

Year == TicksPerYear
Day == TicksPerDay
Kg == S

\* an individual: age (ticks), sex, bmiCat, FFM, FM
Person(a, s, c, ffm, fm) == [age |-> a, sex |-> s, bmiCat |-> c, FFM |-> ffm, FM |-> fm]

Cohorts ==
  { << Person(10 * Year, 1, 2, 25 * Kg, 8 * Kg) >>,
    << Person(12 * Year, 0, 1, 28 * Kg, 0),
       Person(18 * Year - Day, 1, 4, 51 * Kg, 30 * Kg) >>,
    << Person(3 * Year, 1, 3, 11 * Kg + 5000, 2 * Kg + 6000),
       Person(7 * Year, 0, 2, 19 * Kg, 3 * Kg + 6000),
       Person(6 * Year, 0, 4, 22 * Kg, 8 * Kg) >>,
    << Person(16 * Year, 0, 3, 54 * Kg, 19 * Kg),
       Person(9 * Year + Year \div 2, 1, 1, 20 * Kg, 3 * Kg),
       Person(8 * Year, 0, 5, 20 * Kg, 4 * Kg) >> }

Field(c, f) == [j \in 1..Len(c) |-> c[j][f]]

\* dt of half a day, one day and two days
DtSet == {Day \div 2, Day, 2 * Day}

\* an intake table of the given size, every row and column different (kcal)
IntakeTable(rows, n) ==
  [r \in 1..rows |-> [j \in 1..n |-> (1500 + 200 * r + 50 * j) * S]]

\* K, Q, A, B, nu, C of the generalised logistic curve
LogisticSets ==
  { [K |-> 1800 * S, Q |-> S, A |-> 500 * S, B |-> 100, nu |-> S, C |-> S],
    [K |-> 3600 * S, Q |-> 2 * S, A |-> 900 * S, B |-> 1000, nu |-> S \div 2, C |-> S] }

TestAges == {k * (Year \div 4) : k \in 4..(4 * MaxAge)}
TestFFM == {1, 10 * Kg, 60 * Kg}
TestFM == {0, 1, 8 * Kg, 40 * Kg}

Init ==
  /\ \E c \in Cohorts, d \in DtSet, rv \in {0, 1} :
       \/ \E rows \in 1..MaxRows :
            ChildEIntake(Field(c, "age"), Field(c, "sex"), Field(c, "bmiCat"),
                         Field(c, "FFM"), Field(c, "FM"),
                         IntakeTable(rows, Len(c)), d, rv)
       \/ \E lp \in LogisticSets :
            ChildLogistic(Field(c, "age"), Field(c, "sex"), Field(c, "bmiCat"),
                          Field(c, "FFM"), Field(c, "FM"), lp, d, rv)
  /\ pc = "idle"
  /\ days = 0 /\ nsims = 0 /\ i = 0
  /\ ModelFFM = <<>> /\ ModelFM = <<>> /\ ModelBW = <<>>
  /\ AGE = <<>> /\ TIME = <<>>
  /\ correctVals = FALSE
  /\ k1 = <<>> /\ k2 = <<>> /\ k3 = <<>> /\ k4 = <<>>
  /\ reads = {}
  /\ ret = [fn |-> "none"]

Next ==
  \/ \E d \in 0..MaxDays : Rk4Begin(d * Day)
  \/ Rk4Step
  \/ Rk4Return
  \/ Return
  \/ \E t \in TestAges : CallFFMReference(t)
  \/ \E t \in TestAges : CallFMReference(t)
  \/ \E t \in TestAges : CallIntakeReference(t)
  \/ \E ffm \in TestFFM, fm \in TestFM : CallcP(ffm, fm)
  \/ \E k \in (-2)..(2 * MaxRows + 2) : CallIntake(age[1] + k * (dt \div 2))
  \/ \E ffm \in TestFFM, fm \in {0, 8 * Kg} : CalldMass(0, ffm, fm)
  \/ Discard

Spec == Init /\ [][Next]_vars


(***************************************************************************)
(* Properties of the trajectory rk4 builds.                                *)
(***************************************************************************)
InRk4 == pc \in {"loop", "done"}
Steps == 0..nsims
Individuals == 1..nind

\* C1: in every column s of the trajectory, written or not yet written,
\* and for every individual, Body_Weight is Fat_Free_Mass + Fat_Mass, after
\* any number of passes of the loop and in the bundle returned.
C1_BodyWeightIsSum ==
  InRk4 =>
    \A s \in Steps : \A j \in Individuals :
      Col(ModelBW, s)[j] = Col(ModelFFM, s)[j] + Col(ModelFM, s)[j]

\* a returned run of two passes or more whose last column was written
\* with both masses away from zero
C1_Witness ==
  /\ pc = "done"
  /\ nsims >= 2
  /\ \A j \in Individuals :
       /\ Col(ModelFFM, nsims)[j] > 0
       /\ Col(ModelFM, nsims)[j] > 0
       /\ Col(ModelBW, nsims)[j] # Col(ModelBW, 0)[j]

\* C2: column 0 of every array is the initial cohort state (FFM, FM,
\* FFM + FM, age, time 0), whatever number of passes has run since.
C2_ColumnZeroIsInitial ==
  InRk4 =>
    /\ Col(ModelFFM, 0) = FFM
    /\ Col(ModelFM, 0) = FM
    /\ Col(ModelBW, 0) = [j \in Individuals |-> FFM[j] + FM[j]]
    /\ Col(AGE, 0) = age
    /\ TIME[1] = 0

\* a returned run in which later columns were written and differ from
\* column 0
C2_Witness ==
  /\ pc = "done"
  /\ nsims >= 2
  /\ Col(ModelFFM, 1) # Col(ModelFFM, 0)
  /\ Col(AGE, nsims) # Col(AGE, 0)

\* C3: a returned run made exactly floor(days/dt) passes and holds that
\* many columns plus one; Time[s] is s*dt and Age[j, s] is age0[j] plus s
\* steps of dt, for every column s and individual j.
C3_StepsTimeAndAge ==
  pc = "done" =>
    /\ nsims = days \div dt
    /\ i - 1 = nsims
    /\ Len(TIME) = nsims + 1
    /\ Len(AGE) = nsims + 1
    /\ Len(ModelFFM) = nsims + 1
    /\ Len(ModelFM) = nsims + 1
    /\ Len(ModelBW) = nsims + 1
    /\ \A s \in Steps :
         /\ TIME[s + 1] = s * dt
         /\ \A j \in Individuals : Col(AGE, s)[j] = age[j] + s * dt

\* a returned run whose horizon is no multiple of the step, so that the
\* floor cuts it
C3_Witness ==
  /\ pc = "done"
  /\ nsims >= 1
  /\ days > nsims * dt

(***************************************************************************)
(* Properties of the intake model.                                         *)
(***************************************************************************)
\* C4: in tabulated mode a row index outside the table makes the lookup
\* fail: rk4 ends in the error and a direct call returns no value; no row
\* outside the table is ever read and the run carried on.
C4_OutOfRangeFails ==
  ~generalized_logistic =>
    /\ (\E r \in reads : ~RowInBounds(r)) => pc = "error"
    /\ (ret.fn = "Intake" /\ ~RowInBounds(ret.row)) => (~ret.ok /\ ret.val = <<>>)

\* rk4 asked for a row at or beyond the table's row count and failed
C4_Witness ==
  /\ ~generalized_logistic
  /\ pc = "error"
  /\ \E r \in reads : r >= Len(EIntake)

TableConfigured == EIntake # <<>>
LogisticConfigured == logistic # <<>>

\* C5: the object is in exactly one intake mode: the table constructor
\* gives the tabulated mode, the scalar constructor the logistic mode, never
\* both configured, and no step of any call changes the mode or either
\* configuration.
C5_ModeFixedAtConstruction ==
  /\ [](/\ generalized_logistic \in BOOLEAN
        /\ TableConfigured <=> ~generalized_logistic
        /\ LogisticConfigured <=> generalized_logistic
        /\ ~(TableConfigured /\ LogisticConfigured))
  /\ [][/\ generalized_logistic' = generalized_logistic
        /\ EIntake' = EIntake
        /\ logistic' = logistic]_vars

\* a tabulated object on which rk4 has run and read the table
C5_Witness ==
  /\ pc = "done"
  /\ TableConfigured
  /\ ~generalized_logistic
  /\ reads # {}


(***************************************************************************)
(* Properties of the reference lookup and of the functions built on it.    *)
(***************************************************************************)
Valid(j) == bmiCat[j] \in 1..4 /\ sex[j] \in {0, 1}
OtherSet == 1 - referenceValues

\* the result IntakeReference would have given for individual j at the age
\* of the last call, had the object been built with the other reference set
OtherIntakeReference(j) == IntakeReferenceFor(OtherSet, Same(ret.t))[j]

\* the shape of the arrays in the bundle: columns, and entries per column
BundleShape ==
  << Len(TIME),
     {Len(M) : M \in {ModelFFM, ModelFM, ModelBW, AGE}},
     {Len(M[c]) : M \in {ModelFFM, ModelFM, ModelBW, AGE}, c \in 1..(nsims + 1)} >>

\* C6 as stated: changing only the reference set from mean to median
\* changes IntakeReference(t) for every valid individual and every age t of
\* the tables' range.
C6_EveryAgeChanges ==
  (ret.fn = "IntakeReference" /\ ret.t >= 2 * Year) =>
    \A j \in Individuals : Valid(j) => ret.val[j] # OtherIntakeReference(j)

\* C6 as amended: changing only the reference set changes IntakeReference
\* at the tabulated ages 6, 7, 8 and 9 for every valid individual, leaves it
\* unchanged at every age up to 5, from 10 to 15 and from 17 on, where the two
\* sets hold the same rows, and never changes the shape of the bundle, which
\* is floor(days/dt) + 1 columns of nind entries.
C6_ChangesWhereTablesDiffer ==
  /\ ret.fn = "IntakeReference" =>
       \A j \in Individuals : Valid(j) =>
         /\ ret.t \in {6 * Year, 7 * Year, 8 * Year, 9 * Year}
              => ret.val[j] # OtherIntakeReference(j)
         /\ (\/ ret.t <= 5 * Year
             \/ (ret.t >= 10 * Year /\ ret.t <= 15 * Year)
             \/ ret.t >= 17 * Year)
              => ret.val[j] = OtherIntakeReference(j)
  /\ pc = "done" =>
       BundleShape = << days \div dt + 1, {days \div dt + 1}, {nind} >>

\* IntakeReference was called at 7 years on an object with the median set
C6_Witness ==
  /\ ret.fn = "IntakeReference"
  /\ ret.t = 7 * Year
  /\ referenceValues = 1
  /\ \E j \in Individuals : Valid(j) /\ ret.val[j] # OtherIntakeReference(j)

IsReferenceCall == ret.fn \in {"FFMReference", "FMReference"}

\* row r (0..16) of the table the last call read, for individual j
RefTableRow(r, j) ==
  IF ret.fn = "FFMReference" THEN ffm_ref(referenceValues, r, j)
  ELSE fm_ref(referenceValues, r, j)

FloorYear(t) == t \div Year
Clamp(x, lo, hi) == IF x < lo THEN lo ELSE IF x > hi THEN hi ELSE x

\* C7: below 18 years FFMReference and FMReference return
\* row[lo] + (t - floor(t))*(row[hi] - row[lo]) with
\* lo = clamp(floor(t), 2, 17) - 2 and hi = min(lo + 1, 16), both inside the
\* table; at a whole year n of 2..17 that is row n, and half a year later the
\* midpoint of the rows of n and n + 1.  (Results are in 1/Year of a table
\* unit, so row values appear multiplied by Year.)
C7_InterpolationBelow18 ==
  (IsReferenceCall /\ ret.t < 18 * Year) =>
    LET lo == Clamp(FloorYear(ret.t), 2, 17) - 2
        hi == IF lo + 1 <= 16 THEN lo + 1 ELSE 16
        frac == ret.t - FloorYear(ret.t) * Year
        n == FloorYear(ret.t)
    IN  /\ lo \in 0..16 /\ hi \in 0..16
        /\ \A j \in Individuals :
             /\ ret.val[j] = Year * RefTableRow(lo, j)
                             + frac * (RefTableRow(hi, j) - RefTableRow(lo, j))
             /\ (n \in 2..17 /\ frac = 0)
                  => ret.val[j] = Year * RefTableRow(n - 2, j)
             /\ (n \in 2..17 /\ 2 * frac = Year)
                  => 2 * ret.val[j]
                     = Year * (RefTableRow(n - 2, j) + RefTableRow(n - 1, j))

\* FFMReference was called at 10.5 years for an individual whose rows for
\* 10 and 11 years differ
C7_Witness ==
  /\ ret.fn = "FFMReference"
  /\ ret.t = 10 * Year + Year \div 2
  /\ \E j \in Individuals :
       /\ Valid(j)
       /\ RefTableRow(8, j) # RefTableRow(9, j)
       /\ 2 * ret.val[j] = Year * (RefTableRow(8, j) + RefTableRow(9, j))

\* C8: from 18 years on FFMReference and FMReference return the 18 year
\* row (index 16) of the selected table, however far above 18 the age is.
C8_Age18RowFrom18On ==
  (IsReferenceCall /\ ret.t >= 18 * Year) =>
    \A j \in Individuals : ret.val[j] = Year * RefTableRow(16, j)

\* the lookup was called above 18 years for an individual whose 17 and 18
\* year rows differ
C8_Witness ==
  /\ ret.fn = "FFMReference"
  /\ ret.t > 18 * Year
  /\ \E j \in Individuals :
       /\ RefTableRow(16, j) # RefTableRow(15, j)
       /\ ret.val[j] = Year * RefTableRow(16, j)

\* C9 as stated: cP is strictly between 0 and 1 for every FFM > 0 and
\* every FM >= 0, FM = 0 included.  (1 is S in fixed point.)
C9_StrictlyInside ==
  (ret.fn = "cP" /\ ret.FFM > 0 /\ ret.FM >= 0) =>
    \A j \in Individuals : ret.val[j] > 0 /\ ret.val[j] < S

\* C9 as amended: for every FFM > 0 and FM >= 0, cP is above 0 and at most
\* 1; it is exactly 1 at FM = 0 and below 1 for every FM of 0.0001 kg or
\* more.
C9_InsideOrOneAtZeroFat ==
  (ret.fn = "cP" /\ ret.FFM > 0 /\ ret.FM >= 0) =>
    \A j \in Individuals :
      /\ ret.val[j] > 0 /\ ret.val[j] <= S
      /\ ret.FM = 0 => ret.val[j] = S
      /\ ret.FM >= 1 => ret.val[j] < S

\* cP was called with a positive FFM and no fat mass and returned 1
C9_Witness ==
  /\ ret.fn = "cP"
  /\ ret.FFM > 0
  /\ ret.FM = 0
  /\ \A j \in Individuals : ret.val[j] = S

\* C10: correctVals is true throughout rk4 and in the bundle it returns,
\* also in runs where a fat free mass or fat mass entry is zero or below.
C10_CorrectValuesAlwaysTrue ==
  InRk4 => correctVals = TRUE

\* a returned run in which a fat mass fell below zero during the loop
C10_Witness ==
  /\ pc = "done"
  /\ correctVals = TRUE
  /\ \E s \in 1..nsims : \E j \in Individuals :
       Col(ModelFM, s)[j] < 0 /\ Col(ModelFM, 0)[j] >= 0

(***************************************************************************)
(* Properties of the stages of a pass.  After pass i - 1 the locals k1..k4 *)
(* hold its stage derivatives, column i - 2 the state it started from and  *)
(* column i - 1 the state it wrote.                                        *)
(***************************************************************************)
PassDone == InRk4 /\ i >= 2
\* the state x moved along the derivative k for c halves of a step of dt
Moved(x, k, c) == [j \in 1..nind |-> x[j] + (c * dt * k[j]) \div (2 * TicksPerDay)]

\* C11: the stages of a pass are evaluated at perturbations scaled by the
\* step size: k2 at FFM + 0.5*dt*k1 and FM + 0.5*dt*k1, k3 likewise from
\* k2, k4 at FFM + dt*k3 and FM + dt*k3, and the state written is
\* FFM + dt*(k1 + 2*k2 + 2*k3 + k4)/6, for every dt.
C11_StagesScaledByDt ==
  PassDone =>
    LET t == Col(AGE, i - 2)
        f == Col(ModelFFM, i - 2)
        m == Col(ModelFM, i - 2)
    IN  /\ k2 = dMass(Shift(t, dt \div 2), FALSE, Moved(f, k1[1], 1), Moved(m, k1[2], 1))
        /\ k3 = dMass(Shift(t, dt \div 2), FALSE, Moved(f, k2[1], 1), Moved(m, k2[2], 1))
        /\ k4 = dMass(Shift(t, dt), GridLow, Moved(f, k3[1], 2), Moved(m, k3[2], 2))
        /\ \A j \in Individuals :
             /\ Col(ModelFFM, i - 1)[j]
                  = f[j] + (dt * (k1[1][j] + 2 * k2[1][j] + 2 * k3[1][j] + k4[1][j]))
                             \div (6 * TicksPerDay)
             /\ Col(ModelFM, i - 1)[j]
                  = m[j] + (dt * (k1[2][j] + 2 * k2[2][j] + 2 * k3[2][j] + k4[2][j]))
                             \div (6 * TicksPerDay)

\* the same with dt of one day only, where 0.5*dt*k is 0.5*k
C11_StagesScaledAtOneDay ==
  dt = TicksPerDay => C11_StagesScaledByDt

\* a pass with a dt other than one day has run
C11_Witness ==
  /\ PassDone
  /\ dt # TicksPerDay
  /\ k1 # <<>> /\ k4 # <<>>

(***************************************************************************)
(* Properties of the rows of the intake table a run reads.                 *)
(***************************************************************************)
\* C12: in tabulated mode rk4 leaves the stored starting age alone, the
\* stages k1, k2, k3 of pass n read row n - 1 and stage k4 reads row n, so
\* that after n passes the rows read are 0..n, every row read lies in
\* 0..nsims and the highest row a whole run has read is nsims; a lookup
\* returns one whole row, the same row for every individual.
C12_PassReadsItsRows ==
  ~generalized_logistic =>
    /\ (InRk4 \/ pc = "error") =>
         /\ age = Col(AGE, 0)
         /\ reads \subseteq 0..nsims
    /\ InRk4 => reads = (IF i = 1 THEN {} ELSE 0..(i - 1))
    /\ (pc = "done" /\ nsims >= 1) => nsims \in reads
    /\ (ret.fn = "Intake" /\ ret.ok) => ret.val = EIntake[ret.row + 1]

\* the part of C12 that does not depend on the rounding of the row index
C12_RowsWithinRun ==
  ~generalized_logistic =>
    /\ (InRk4 \/ pc = "error") =>
         /\ age = Col(AGE, 0)
         /\ reads \subseteq 0..nsims
    /\ InRk4 =>
         /\ i >= 2 => 0..(i - 2) \subseteq reads
         /\ reads \subseteq 0..(i - 1)
    /\ (ret.fn = "Intake" /\ ret.ok) => ret.val = EIntake[ret.row + 1]

\* a run of two passes or more has returned without reading row nsims
C12_Witness ==
  /\ ~generalized_logistic
  /\ pc = "done"
  /\ nsims >= 2
  /\ reads = 0..(nsims - 1)

(***************************************************************************)
(* Properties of the reference of an individual of no category.            *)
(***************************************************************************)
Uncategorised(j) == bmiCat[j] \notin 1..4
MassReferenceCall == ret.fn \in {"FFMReference", "FMReference"}

\* C13 as stated: for an individual whose bmiCat is outside 1..4,
\* FFMReference and FMReference return zero at every age from 2 years on.
C13_ZeroAtEveryAge ==
  (MassReferenceCall /\ ret.t >= 2 * TicksPerYear) =>
    \A j \in Individuals : Uncategorised(j) => ret.val[j] = 0

\* C13 as amended: for an individual whose bmiCat is outside 1..4,
\* FFMReference and FMReference return a value at every age; it is zero at
\* every age from 6 years on, where all rows in reach carry the category
\* indicators, and positive below 6 years, where the rows of the ages 2 to
\* 5 carry none.
C13_ZeroFromSixOn ==
  MassReferenceCall =>
    /\ DOMAIN ret.val = Individuals
    /\ \A j \in Individuals : Uncategorised(j) =>
         /\ ret.t >= 6 * TicksPerYear => ret.val[j] = 0
         /\ ret.t < 6 * TicksPerYear => ret.val[j] > 0

\* FFMReference was called at an age between 6 and 18 for a cohort with an
\* individual of category 5 and one of a category of the table
C13_Witness ==
  /\ ret.fn = "FFMReference"
  /\ ret.t > 6 * TicksPerYear /\ ret.t < 18 * TicksPerYear
  /\ \E j \in Individuals : Uncategorised(j) /\ ret.val[j] = 0
  /\ \E j \in Individuals : ~Uncategorised(j) /\ ret.val[j] > 0

(***************************************************************************)
(* Properties of the two rates of dMass.  The rates are rounded down to    *)
(* one unit of 1/S kg per day, so that a rate times its energy density     *)
(* falls short of the energy it was computed from by under one density     *)
(* unit, and the two shares p and 1 - p by under one unit of 1/S kcal each.*)
(***************************************************************************)
\* rhoFFM*dFFM + rhoFM*dFM of the rates d, in 1/S kcal per day
EnergyStored(d, ffm) ==
  [j \in 1..nind |-> Mul(cRhoFFM(ffm)[j], d[1][j]) + rhoFM * d[2][j]]
\* Intake(t) - Expenditure(t, FFM, FM)
EnergySurplus(t, low, ffm, fm) ==
  [j \in 1..nind |-> Intake(t, low).val[j] - Expenditure(t, low, ffm, fm)[j]]
\* what the rounding of the two rates and of the two shares can take away
RoundingLoss(ffm, j) == rhoFM + cRhoFFM(ffm)[j] \div S + 3
\* the rates d store the surplus of the state (ffm, fm) at the ages t
Conserved(d, t, low, ffm, fm) ==
  \A stored \in {EnergyStored(d, ffm)}, surplus \in {EnergySurplus(t, low, ffm, fm)} :
    \A j \in Individuals :
      /\ 0 <= surplus[j] - stored[j]
      /\ surplus[j] - stored[j] <= RoundingLoss(ffm, j)

\* C14: the two rates of dMass conserve energy, rhoFFM(FFM)*dFFM +
\* rhoFM*dFM = Intake(t) - Expenditure(t, FFM, FM), up to the rounding of the
\* rates: for the first stage of every pass of rk4, and for every direct
\* call of dMass.
C14_EnergyConserved ==
  /\ PassDone =>
       Conserved(k1, Col(AGE, i - 2), GridLow,
                 Col(ModelFFM, i - 2), Col(ModelFM, i - 2))
  /\ ret.fn = "dMass" => Conserved(ret.val, ret.t, FALSE, ret.FFM, ret.FM)

\* dMass returned rates for a surplus of more than 100 kcal per day, with a
\* growth term of more than 1 kcal per day, that go to both masses
C14_Witness ==
  /\ ret.fn = "dMass"
  /\ \E j \in Individuals :
       /\ EnergySurplus(ret.t, FALSE, ret.FFM, ret.FM)[j] > 100 * S
       /\ Growth_dynamic(ret.t)[j] > S
       /\ ret.val[1][j] > 0 /\ ret.val[2][j] > 0


====
